---- MODULE Spec2Model ----
(***************************************************************************)
(* Event-level pipeline of the Wideband CRV analysis (src/Utils):          *)
(* Clean -> CrvAging019 -> Cuts -> Trigger, on an in-memory event table,   *)
(* then Sort, Histogrammer and ScanInefficiency on the sorted layer sums,   *)
(* and the parallel file reading of Processor that builds the table.       *)
(*                                                                         *)
(* The table is a sequence of events.  Every event carries its raw         *)
(* 8 x 64 grid PEsTemperatureCorrected and the derived fields the stages   *)
(* attach; `fields` is the set of field names the table currently has.     *)
(* `out` is what the last call printed (its counts) and whether it raised. *)
(* `scanner` is the ScanInefficiency object, `hists` the Histogrammer's    *)
(* histograms, `ret` the value the last analysis call returned and `pool`  *)
(* the state of Processor.process_files_parallel.                          *)
(* An uncaught exception ends the run: no stage is called after it.        *)
(***************************************************************************)
EXTENDS Integers, Sequences, FiniteSets, TLC

VARIABLES arrays, fields, out, scanner, hists, ret, pool

\* the analysis objects and the file-reading pool: no stage of the table pipeline
\* touches them
analysis == <<scanner, hists, ret, pool>>

vars == <<arrays, fields, out, scanner, hists, ret, pool>>

(***************************************************************************)
(* Shapes                                                                  *)
(***************************************************************************)
n_layers == 4
n_channels_per_layer == 32
n_febs == 8
n_channels == 64

Febs == 0 .. (n_febs - 1)
Channels == 0 .. (n_channels - 1)
Layers == 0 .. (n_layers - 1)
LayerChannels == 0 .. (n_channels_per_layer - 1)

(***************************************************************************)
(* Bounds of the model                                                     *)
(***************************************************************************)
MaxEvents == 2

(***************************************************************************)
(* Values.  PEs are floats in the code; the model uses integers plus the   *)
(* float NaN, which compares false with everything (itself included) and   *)
(* absorbs addition.                                                       *)
(***************************************************************************)
NaN == -1000000

Plus(a, b) == IF a = NaN \/ b = NaN THEN NaN ELSE a + b
Lt(a, b) == a # NaN /\ b # NaN /\ a < b
Le(a, b) == a # NaN /\ b # NaN /\ a <= b
Gt(a, b) == Lt(b, a)
Ge(a, b) == Le(b, a)
EqVal(a, b) == a # NaN /\ b # NaN /\ a = b

\* ak.sum(x, axis=-1) over a row f with domain 0 .. n-1 (summed by halves)
RECURSIVE SumRange(_, _, _)
SumRange(f, lo, hi) ==
    IF lo > hi THEN 0
    ELSE IF lo = hi THEN f[lo]
    ELSE LET mid == (lo + hi) \div 2
         IN  Plus(SumRange(f, lo, mid), SumRange(f, mid + 1, hi))

SumRow(f, n) == SumRange(f, 0, n - 1)

\* ak.any(x, axis=-1) over a row of booleans with domain S
AnyOf(f, S) == \E k \in S : f[k]

\* boolean -> int, ak.values_astype(x, "int")
AsInt(b) == IF b THEN 1 ELSE 0

\* x[mask] : the events of a table whose mask entry is true, in order
RECURSIVE Select(_, _)
Select(s, keep) ==
    IF Len(s) = 0 THEN << >>
    ELSE LET rest == Select(Tail(s), [k \in 1 .. (Len(s) - 1) |-> keep[k + 1]])
         IN  IF keep[1] THEN << Head(s) >> \o rest ELSE rest

(***************************************************************************)
(* Tables                                                                  *)
(***************************************************************************)
ZeroLayers == [l \in Layers |-> [c \in LayerChannels |-> 0]]
AllValid == [l \in Layers |-> [c \in LayerChannels |-> TRUE]]
NoFlags == [l \in Layers |-> 0]

\* an event as read from file: the raw grid and its position in the input
NewEvent(n, grid) ==
    [ eventNumber |-> n,
      PEsTemperatureCorrected |-> grid,
      PEs_per_layer_L_end |-> ZeroLayers,
      L_end_valid |-> AllValid,
      PEs_per_layer_T |-> ZeroLayers,
      PEs_per_layer_DS |-> ZeroLayers,
      trig_L_end_layers |-> NoFlags,
      trig_DS_layers |-> NoFlags,
      trig_L_end |-> FALSE,
      trig_DS |-> FALSE,
      trig |-> FALSE,
      PEs_per_layer_T_sorted |-> NoFlags,
      fail |-> << >> ]

NewTable(grids) == [i \in 1 .. Len(grids) |-> NewEvent(i, grids[i])]

TablesOf(G, n) ==
    { NewTable(gs) : gs \in UNION { [1 .. k -> G] : k \in 0 .. n } }

\* the tables made of at most n events of the fixture list F, in F's order
RECURSIVE PickInOrder(_, _)
PickInOrder(F, I) ==
    IF I = {} THEN << >>
    ELSE LET m == CHOOSE i \in I : \A j \in I : i <= j
         IN  << F[m] >> \o PickInOrder(F, I \ {m})

SubTables(F, n) ==
    { NewTable(PickInOrder(F, I)) : I \in { J \in SUBSET (1 .. Len(F)) : Cardinality(J) <= n } }

RawFields == {"PEsTemperatureCorrected"}
LayerFields == {"PEs_per_layer_L_end", "PEs_per_layer_T", "PEs_per_layer_DS"}

NoOut == [op |-> "none", args |-> << >>, n_in |-> 0, printed |-> << >>, raised |-> "none"]

Printed(op, args, n, p) ==
    [op |-> op, args |-> args, n_in |-> n, printed |-> p, raised |-> "none"]

Raised(op, args, n, p, e) ==
    [op |-> op, args |-> args, n_in |-> n, printed |-> p, raised |-> e]

Running == out.raised = "none"

\* fixture grid: `v` at (pb, pc), `base` on every channel divisible by step
Grid(base, step, pb, pc, v) ==
    [b \in Febs |-> [c \in Channels |->
        IF b = pb /\ c = pc THEN v
        ELSE IF c % step = 0 THEN base ELSE 0]]

\* fixture grid with all 512 values distinct
Ramp == [b \in Febs |-> [c \in Channels |-> n_channels * b + c + 1]]
RampDown == [b \in Febs |-> [c \in Channels |-> 1000 - 3 * (n_channels * b + c)]]

(***************************************************************************)
(* Clean (src/Utils/clean.py)                                              *)
(***************************************************************************)
\* has_negatives: per event and board, any channel < 0
has_negatives(e) ==
    [b \in Febs |-> AnyOf([c \in Channels |-> Lt(e.PEsTemperatureCorrected[b][c], 0)], Channels)]

has_negatives_in_event(e) == AnyOf(has_negatives(e), Febs)

\* ak.sum over the (event, board) flags
RECURSIVE n_events_negative(_)
n_events_negative(s) ==
    IF Len(s) = 0 THEN 0
    ELSE Cardinality({b \in Febs : has_negatives(Head(s))[b]}) + n_events_negative(Tail(s))

Clean_result_notinverted(s) ==
    Select(s, [i \in 1 .. Len(s) |-> has_negatives_in_event(s[i])])

Clean_result(s) == Select(s, [i \in 1 .. Len(s) |-> ~ has_negatives_in_event(s[i])])

remove_negative_PEs ==
    /\ Running
    /\ UNCHANGED analysis
    /\ arrays' = Clean_result(arrays)
    /\ out' = Printed("remove_negative_PEs", << >>, Len(arrays),
                      << n_events_negative(arrays), Len(arrays) >>)
    /\ UNCHANGED fields

(***************************************************************************)
(* CrvAging019 (src/Utils/crvaging019.py)                                  *)
(***************************************************************************)
\* arrays[:, lo:hi, :] flattened in C order, as ak.to_numpy(...).reshape reads it
FlatFebs(s, lo, hi) ==
    [k \in 1 .. (Len(s) * (hi - lo) * n_channels) |->
        LET k0 == k - 1
            per == (hi - lo) * n_channels
        IN  s[(k0 \div per) + 1].PEsTemperatureCorrected[lo + ((k0 % per) \div n_channels)][k0 % n_channels]]

\* arrays[:, a, :] + arrays[:, b, :] flattened in C order
FlatFebSum(s, a, b) ==
    [k \in 1 .. (Len(s) * n_channels) |->
        LET k0 == k - 1
            e == s[(k0 \div n_channels) + 1].PEsTemperatureCorrected
        IN  Plus(e[a][k0 % n_channels], e[b][k0 % n_channels])]

\* numpy reshape(-1, nl, nc) of a flat array, one (nl x nc) block per event
Reshape(flat, nl, nc) ==
    [i \in 1 .. (Len(flat) \div (nl * nc)) |->
        [l \in 0 .. (nl - 1) |-> [c \in 0 .. (nc - 1) |->
            flat[(i - 1) * nl * nc + l * nc + c + 1]]]]

\* python slices row[a:b] and row[a:b:-1] (b exclusive; b = -1 stands for "to the start")
SliceUp(row, a, b) == [k \in 1 .. (b - a) |-> row[a + k - 1]]
SliceDown(row, a, b) == [k \in 1 .. (a - b) |-> row[a - (k - 1)]]

\* a 1-based sequence as a row indexed from 0
SeqRow(sq) == [c \in 0 .. (Len(sq) - 1) |-> sq[c + 1]]

\* np.array_equal(layers[i_layer], reshape[:, i_layer, :])
layer_match(layer, reshape, i_layer) ==
    /\ Len(layer) = Len(reshape)
    /\ \A i \in 1 .. Len(layer) : \A c \in LayerChannels :
          EqVal(layer[i][c], reshape[i][i_layer][c])

\* check_layers: prints one line per matching layer; at the first mismatching layer the
\* report reads the name T_reshape, which check_layers does not define
check_layers(layers, reshape) ==
    LET bad == { i \in Layers : ~ layer_match(layers[i], reshape, i) }
    IN  IF bad = {} THEN [printed |-> [k \in 1 .. n_layers |-> 1], raised |-> "none"]
        ELSE LET m == CHOOSE i \in bad : \A j \in bad : i <= j
             IN  [printed |-> [k \in 1 .. (m + 1) |-> IF k = m + 1 THEN 0 ELSE 1],
                  raised |-> "NameError"]

\* layers mapped by hand: arrays[:, feb, lo:hi]
HandSlice(s, feb, lo, hi) ==
    [i \in 1 .. Len(s) |-> SeqRow(SliceUp(s[i].PEsTemperatureCorrected[feb], lo, hi))]

HandSliceSum(s, fa, fb, lo, hi) ==
    [i \in 1 .. Len(s) |->
        [c \in LayerChannels |-> Plus(s[i].PEsTemperatureCorrected[fa][lo + c],
                                      s[i].PEsTemperatureCorrected[fb][lo + c])]]

l_end_reshape_offbyone(s) == Reshape(FlatFebs(s, 5, 7), n_layers, n_channels_per_layer)

l_end_reshape(s) == Reshape(FlatFebs(s, 6, 8), n_layers, n_channels_per_layer)

crv_L_end ==
    /\ Running
    /\ UNCHANGED analysis
    /\ LET r == l_end_reshape(arrays)
           layers == << HandSlice(arrays, 6, 0, 32), HandSlice(arrays, 6, 32, 64),
                        HandSlice(arrays, 7, 0, 32), HandSlice(arrays, 7, 32, 64) >>
           chk == check_layers([l \in Layers |-> layers[l + 1]], r)
       IN  /\ arrays' = [i \in 1 .. Len(arrays) |->
                            [arrays[i] EXCEPT !.PEs_per_layer_L_end = r[i],
                                              !.L_end_valid = AllValid]]
           /\ out' = Raised("crv_L_end", << >>, Len(arrays), chk.printed, chk.raised)
    /\ fields' = fields \cup {"PEs_per_layer_L_end"}

T_reshape_single(s) == Reshape(FlatFebs(s, 2, 4), n_layers, n_channels_per_layer)

T_reshape_double(s) ==
    LET T_01 == Reshape(FlatFebSum(s, 2, 4), n_layers \div 2, n_channels_per_layer)
        T_23 == Reshape(FlatFebSum(s, 3, 5), n_layers \div 2, n_channels_per_layer)
    IN  [i \in 1 .. Len(s) |-> [l \in Layers |-> IF l < 2 THEN T_01[i][l] ELSE T_23[i][l - 2]]]

crv_T(single_ended) ==
    /\ Running
    /\ UNCHANGED analysis
    /\ LET r == IF single_ended THEN T_reshape_single(arrays) ELSE T_reshape_double(arrays)
           layers ==
               IF single_ended
               THEN << HandSlice(arrays, 2, 0, 32), HandSlice(arrays, 2, 32, 64),
                       HandSlice(arrays, 3, 0, 32), HandSlice(arrays, 3, 32, 64) >>
               ELSE << HandSliceSum(arrays, 2, 4, 0, 32), HandSliceSum(arrays, 2, 4, 32, 64),
                       HandSliceSum(arrays, 3, 5, 0, 32), HandSliceSum(arrays, 3, 5, 32, 64) >>
           chk == check_layers([l \in Layers |-> layers[l + 1]], r)
       IN  /\ arrays' = [i \in 1 .. Len(arrays) |->
                            [arrays[i] EXCEPT !.PEs_per_layer_T = r[i]]]
           /\ out' = Raised("crv_T", << AsInt(single_ended) >>, Len(arrays),
                            chk.printed, chk.raised)
    /\ fields' = fields \cup {"PEs_per_layer_T"}

\* the eight slices of one event, concatenated along the channel axis
DS_row_unreversed(g) ==
    SliceUp(g[1], 0, 16) \o SliceUp(g[0], 0, 16)
        \o SliceUp(g[1], 16, 32) \o SliceUp(g[0], 16, 32)
        \o SliceUp(g[1], 32, 48) \o SliceUp(g[0], 32, 48)
        \o SliceUp(g[1], 48, 64) \o SliceUp(g[0], 48, 64)

DS_row(g) ==
    SliceUp(g[1], 0, 16) \o SliceDown(g[0], 15, -1)
        \o SliceUp(g[1], 16, 32) \o SliceDown(g[0], 31, 15)
        \o SliceUp(g[1], 32, 48) \o SliceDown(g[0], 47, 31)
        \o SliceUp(g[1], 48, 64) \o SliceDown(g[0], 63, 47)

RECURSIVE FlatRows(_)
FlatRows(rows) == IF Len(rows) = 0 THEN << >> ELSE Head(rows) \o FlatRows(Tail(rows))

DS_reshape(s) ==
    Reshape(FlatRows([i \in 1 .. Len(s) |-> DS_row(s[i].PEsTemperatureCorrected)]),
            n_layers, n_channels_per_layer)

DS_hand_layer(s, l) ==
    [i \in 1 .. Len(s) |->
        LET g == s[i].PEsTemperatureCorrected
        IN  SeqRow(SliceUp(g[1], 16 * l, 16 * l + 16)
                     \o SliceDown(g[0], 16 * l + 15, 16 * l - 1))]

crv_DS ==
    /\ Running
    /\ UNCHANGED analysis
    /\ LET r == DS_reshape(arrays)
           chk == check_layers([l \in Layers |-> DS_hand_layer(arrays, l)], r)
       IN  /\ arrays' = [i \in 1 .. Len(arrays) |->
                            [arrays[i] EXCEPT !.PEs_per_layer_DS = r[i]]]
           /\ out' = Raised("crv_DS", << >>, Len(arrays), chk.printed, chk.raised)
    /\ fields' = fields \cup {"PEs_per_layer_DS"}

(***************************************************************************)
(* Layer sums.  PEs_per_layer_L_end is an option-type array once           *)
(* fiducial_cut has masked it: L_end_valid[l][c] = FALSE marks a missing   *)
(* channel, and ak.sum skips missing values.                               *)
(***************************************************************************)
SumRowIgnoringMask(f, valid, n) == SumRow(f, n)

\* a missing value contributes the identity of the sum
SumRowValid(f, valid, n) == SumRow([c \in 0 .. (n - 1) |-> IF valid[c] THEN f[c] ELSE 0], n)

layer_sums_L_end(e) ==
    [l \in Layers |-> SumRowValid(e.PEs_per_layer_L_end[l], e.L_end_valid[l],
                                  n_channels_per_layer)]

layer_sums_T(e) == [l \in Layers |-> SumRow(e.PEs_per_layer_T[l], n_channels_per_layer)]

layer_sums_DS(e) == [l \in Layers |-> SumRow(e.PEs_per_layer_DS[l], n_channels_per_layer)]

(***************************************************************************)
(* Trigger (src/Utils/trigger.py)                                          *)
(***************************************************************************)
TrigFields == {"trig_L_end_layers", "trig_DS_layers", "trig_L_end", "trig_DS", "trig"}

layer_hit(sum, thres) == AsInt(Gt(sum, thres))

combined_with_T(e, tl, td, thres) ==
    /\ tl
    /\ td
    /\ \A l \in Layers : layer_hit(layer_sums_T(e)[l], thres) = 1

combined(e, tl, td, thres) == tl /\ td

with_triggers(e, thres) ==
    LET ll == [l \in Layers |-> layer_hit(layer_sums_L_end(e)[l], thres)]
        dl == [l \in Layers |-> layer_hit(layer_sums_DS(e)[l], thres)]
        tl == SumRow(ll, n_layers) = 4
        td == SumRow(dl, n_layers) = 4
    IN  [e EXCEPT !.trig_L_end_layers = ll,
                  !.trig_DS_layers = dl,
                  !.trig_L_end = tl,
                  !.trig_DS = td,
                  !.trig = combined(e, tl, td, thres)]

get_triggers(thres) ==
    /\ Running
    /\ UNCHANGED analysis
    /\ IF ~ ({"PEs_per_layer_L_end", "PEs_per_layer_DS"} \subseteq fields)
       THEN /\ out' = Raised("get_triggers", << thres >>, Len(arrays), << >>, "ValueError")
            /\ UNCHANGED << arrays, fields >>
       ELSE LET t == [i \in 1 .. Len(arrays) |-> with_triggers(arrays[i], thres)]
                n_tot == Len(t)
                n_trig == Len(Select(t, [i \in 1 .. Len(t) |-> t[i].trig]))
            IN  /\ arrays' = t
                /\ fields' = fields \cup TrigFields
                \* trig_frac = n_trig/n_tot
                /\ out' = IF n_tot = 0
                          THEN Raised("get_triggers", << thres >>, n_tot, << >>,
                                      "ZeroDivisionError")
                          ELSE Printed("get_triggers", << thres >>, n_tot,
                                       << n_trig, n_tot >>)

trig_result_reordered(s) ==
    LET t == Select(s, [i \in 1 .. Len(s) |-> s[i].trig])
    IN  [k \in 1 .. Len(t) |-> t[Len(t) + 1 - k]]

\* arrays[arrays['trig']]
trig_result(s) == Select(s, [i \in 1 .. Len(s) |-> s[i].trig])

apply_triggers ==
    /\ Running
    /\ UNCHANGED analysis
    /\ IF "trig" \notin fields
       THEN /\ out' = Raised("apply_triggers", << >>, Len(arrays), << >>, "FieldNotFoundError")
            /\ UNCHANGED arrays
       ELSE /\ arrays' = trig_result(arrays)
            /\ out' = Printed("apply_triggers", << >>, Len(arrays), << >>)
    /\ UNCHANGED fields

(***************************************************************************)
(* Cuts (src/Utils/cuts.py).  Each action is Cuts(arrays, verbose=v).cut():*)
(* the object is built on the current table, so n_initial = n_before.  The *)
(* plots (pyplot.Plot, not part of Utils) change no table and are left out.*)
(***************************************************************************)
\* the report of a cut: it divides by n_before, then by n_initial
cut_report(op, args, verbose, n_before, n_initial, n_after) ==
    IF ~ verbose THEN Printed(op, args, n_before, << >>)
    ELSE IF n_before = 0 \/ n_initial = 0
         THEN Raised(op, args, n_before, << >>, "ZeroDivisionError")
         ELSE Printed(op, args, n_before, << n_before - n_after, n_after >>)

get_tot_PEs(e) ==
    Plus(Plus(SumRow(layer_sums_L_end(e), n_layers), SumRow(layer_sums_T(e), n_layers)),
         SumRow(layer_sums_DS(e), n_layers))

tot_PE_pass_inclusive(tot, min_PEs, max_PEs) == Ge(tot, min_PEs) /\ Le(tot, max_PEs)

tot_PE_pass(tot, min_PEs, max_PEs) == Ge(tot, min_PEs) /\ Lt(tot, max_PEs)

tot_PE_cut(min_PEs, max_PEs, verbose) ==
    /\ Running
    /\ UNCHANGED analysis
    /\ IF ~ ({"PEs_per_layer_L_end", "PEs_per_layer_T", "PEs_per_layer_DS"} \subseteq fields)
       THEN /\ out' = Raised("tot_PE_cut", << min_PEs, max_PEs >>, Len(arrays), << >>,
                             "FieldNotFoundError")
            /\ UNCHANGED arrays
       ELSE LET kept == Select(arrays, [i \in 1 .. Len(arrays) |->
                               tot_PE_pass(get_tot_PEs(arrays[i]), min_PEs, max_PEs)])
            IN  /\ arrays' = kept
                /\ out' = cut_report("tot_PE_cut", << min_PEs, max_PEs >>, verbose,
                                     Len(arrays), Len(arrays), Len(kept))
    /\ UNCHANGED fields

in_fiducial(i_channel, lo_chan, hi_chan) == lo_chan <= i_channel /\ i_channel <= hi_chan

\* ak.mask(array_before, mask): a channel stays valid where the mask is true
masked(e, lo_chan, hi_chan) ==
    [e EXCEPT !.L_end_valid =
        [l \in Layers |-> [c \in LayerChannels |->
            e.L_end_valid[l][c] /\ in_fiducial(c, lo_chan, hi_chan)]]]

\* On a table of no events the mask is ak.Array([]), an array of unknown type, and
\* ak.mask either takes it (nothing to mask) or rejects it for not being boolean.
fiducial_cut(lo_chan, hi_chan, verbose) ==
    /\ Running
    /\ UNCHANGED analysis
    /\ IF "PEs_per_layer_L_end" \notin fields
       THEN /\ out' = Raised("fiducial_cut", << lo_chan, hi_chan >>, Len(arrays), << >>,
                             "FieldNotFoundError")
            /\ UNCHANGED arrays
       ELSE \/ /\ arrays' = [i \in 1 .. Len(arrays) |-> masked(arrays[i], lo_chan, hi_chan)]
               /\ out' = cut_report("fiducial_cut", << lo_chan, hi_chan >>, verbose,
                                    Len(arrays), Len(arrays), Len(arrays))
            \/ /\ Len(arrays) = 0
               /\ out' = Raised("fiducial_cut", << lo_chan, hi_chan >>, 0, << >>, "ValueError")
               /\ UNCHANGED arrays
    /\ UNCHANGED fields

\* nonzero_counters = array > 0, summed over channels, then over boards
get_counter_hits_nonzero(e) ==
    LET per_feb == [b \in Febs |->
            SumRow([c \in Channels |-> AsInt(e.PEsTemperatureCorrected[b][c] # 0)], n_channels)]
    IN  SumRow(per_feb, n_febs)

get_counter_hits(e) ==
    LET per_feb == [b \in Febs |->
            SumRow([c \in Channels |-> AsInt(Gt(e.PEsTemperatureCorrected[b][c], 0))], n_channels)]
    IN  SumRow(per_feb, n_febs)

counters_hit_cut(min_counter_hits, max_counter_hits, verbose) ==
    /\ Running
    /\ UNCHANGED analysis
    /\ LET kept == Select(arrays, [i \in 1 .. Len(arrays) |->
                          /\ get_counter_hits(arrays[i]) >= min_counter_hits
                          /\ get_counter_hits(arrays[i]) < max_counter_hits])
       IN  /\ arrays' = kept
           /\ out' = cut_report("counters_hit_cut", << min_counter_hits, max_counter_hits >>,
                                verbose, Len(arrays), Len(arrays), Len(kept))
    /\ UNCHANGED fields

\* default arguments
thres_default == 10
min_PEs_default == 900
max_PEs_default == 2250
lo_chan_default == 12
hi_chan_default == 19
min_counter_hits_default == 16
max_counter_hits_default == 40
start_default == 10
stop_default == 150
steps_default == 29

(***************************************************************************)
(* Sort (src/Utils/sort.py)                                                *)
(***************************************************************************)
\* the value the last analysis call returned
NoRet == [op |-> "none", arg |-> "", value |-> << >>]

Returned(op, arg, value) == [op |-> op, arg |-> arg, value |-> value]

\* layer_sums = ak.sum(array, axis=-1), for the layer array stored under `name`
layer_sums(e, name) ==
    LET sums == IF name = "PEs_per_layer_L_end" THEN layer_sums_L_end(e)
                ELSE IF name = "PEs_per_layer_T" THEN layer_sums_T(e)
                ELSE layer_sums_DS(e)
    IN  [k \in 1 .. n_layers |-> sums[k - 1]]

\* ak.sort(axis=-1), ascending: insertion into an ascending sequence
RECURSIVE insert_sorted(_, _)
insert_sorted(x, sq) ==
    IF Len(sq) = 0 THEN << x >>
    ELSE IF x <= Head(sq) THEN << x >> \o sq
    ELSE << Head(sq) >> \o insert_sorted(x, Tail(sq))

RECURSIVE ak_sort_descending(_)
ak_sort_descending(sq) ==
    IF Len(sq) = 0 THEN << >>
    ELSE LET rest == ak_sort_descending(Tail(sq))
             above == Select(rest, [k \in 1 .. Len(rest) |-> rest[k] > Head(sq)])
             below == Select(rest, [k \in 1 .. Len(rest) |-> rest[k] <= Head(sq)])
         IN  above \o << Head(sq) >> \o below

RECURSIVE ak_sort(_)
ak_sort(sq) ==
    IF Len(sq) = 0 THEN << >> ELSE insert_sorted(Head(sq), ak_sort(Tail(sq)))

sorted_layers_descending(s, name) ==
    [i \in 1 .. Len(s) |-> ak_sort_descending(layer_sums(s[i], name))]

sorted_layers(s, name) == [i \in 1 .. Len(s) |-> ak_sort(layer_sums(s[i], name))]

\* Sort().sort_layer_PEs(arrays[name]): a pure function of the array it is given
sort_layer_PEs(name) ==
    /\ Running
    /\ name \in fields
    /\ ret' = Returned("sort_layer_PEs", name, sorted_layers(arrays, name))
    /\ out' = Printed("sort_layer_PEs", << >>, Len(arrays), << >>)
    /\ UNCHANGED << arrays, fields, scanner, hists, pool >>


(***************************************************************************)
(* Numbers of the inefficiency scan.  Thresholds and inefficiencies are    *)
(* quotients of integers and are kept as reduced fractions [n, d], d > 0.  *)
(* A Wilson bound is p + s * sqrt(r) with p, r fractions and s = 1 or -1;  *)
(* it is kept in that form, the root taken when r is a square.             *)
(***************************************************************************)
Abs(x) == IF x < 0 THEN - x ELSE x

RECURSIVE GCD(_, _)
GCD(a, b) == IF b = 0 THEN a ELSE GCD(b, a % b)

Rat(n, d) ==
    LET g == GCD(Abs(n), Abs(d))
        sgn == IF d < 0 THEN -1 ELSE 1
    IN  [n |-> (sgn * n) \div g, d |-> (sgn * d) \div g]

RatAdd(x, y) == Rat(x.n * y.d + y.n * x.d, x.d * y.d)
RatSub(x, y) == Rat(x.n * y.d - y.n * x.d, x.d * y.d)
RatMul(x, y) == Rat(x.n * y.n, x.d * y.d)
RatDiv(x, y) == Rat(x.n * y.d, x.d * y.n)
RatLe(x, y) == x.n * y.d <= y.n * x.d
RatLt(x, y) == x.n * y.d < y.n * x.d

\* the largest x in lo .. hi with x * x <= n
RECURSIVE ISqrtIn(_, _, _)
ISqrtIn(n, lo, hi) ==
    IF lo >= hi THEN lo
    ELSE LET mid == (lo + hi + 1) \div 2
         IN  IF mid * mid <= n THEN ISqrtIn(n, mid, hi) ELSE ISqrtIn(n, lo, mid - 1)

ISqrt(n) == ISqrtIn(n, 0, IF n < 46340 THEN n ELSE 46340)

IsSquare(n) == ISqrt(n) * ISqrt(n) = n

\* p + s * sqrt(r)
Surd(p, s, r) ==
    IF IsSquare(r.n) /\ IsSquare(r.d)
    THEN [p |-> RatAdd(p, Rat(s * ISqrt(r.n), ISqrt(r.d))), s |-> 1, r |-> Rat(0, 1),
          nan |-> FALSE]
    ELSE [p |-> p, s |-> s, r |-> r, nan |-> FALSE]

\* the result of 0/0 in numpy arithmetic
SurdNaN == [p |-> Rat(0, 1), s |-> 1, r |-> Rat(0, 1), nan |-> TRUE]

SurdSub(x, q) == Surd(RatSub(x.p, q), x.s, x.r)

SurdHalf(x) == Surd(RatDiv(x.p, Rat(2, 1)), x.s, RatDiv(x.r, Rat(4, 1)))

SurdNonNegative(x) ==
    IF x.s = 1 THEN x.p.n >= 0 \/ RatLe(RatMul(x.p, x.p), x.r)
    ELSE x.p.n >= 0 /\ RatLe(x.r, RatMul(x.p, x.p))

SurdAbs(x) == IF SurdNonNegative(x) THEN x ELSE Surd(Rat(- x.p.n, x.p.d), - x.s, x.r)

(***************************************************************************)
(* ScanInefficiency (src/Utils/scan_inefficiency.py)                       *)
(***************************************************************************)
NoScanner == [made |-> FALSE, start |-> 0, stop |-> 0, steps |-> 0, thresholds |-> << >>]

\* np.linspace(start, stop, num) without the end point set: num steps of
\* (stop - start) / num
linspace_open(start, stop, num) ==
    LET step == Rat(stop - start, num)
    IN  [i \in 1 .. num |-> RatAdd(RatMul(Rat(i - 1, 1), step), Rat(start, 1))]

\* np.linspace(start, stop, num): step = (stop - start) / (num - 1),
\* y = arange(0, num) * step + start, and the last value is set to stop
linspace(start, stop, num) ==
    LET step == Rat(stop - start, num - 1)
    IN  [i \in 1 .. num |->
            IF i = num THEN Rat(stop, 1)
            ELSE RatAdd(RatMul(Rat(i - 1, 1), step), Rat(start, 1))]

\* ScanInefficiency(start, stop, steps): a constructor that raises builds no object
ScanInefficiency(start, stop, steps) ==
    /\ Running
    /\ IF stop <= start \/ steps < 2
       THEN /\ out' = Raised("ScanInefficiency", << start, stop, steps >>, 0, << >>,
                             "ValueError")
            /\ UNCHANGED scanner
       ELSE /\ scanner' = [made |-> TRUE, start |-> start, stop |-> stop, steps |-> steps,
                           thresholds |-> linspace(start, stop, steps)]
            /\ out' = Printed("ScanInefficiency", << start, stop, steps >>, 0, << >>)
    /\ UNCHANGED << arrays, fields, hists, ret, pool >>

\* the value of get_ineff: k / N if N > 0 else 0
ineff_of(k, N) == IF N > 0 THEN Rat(k, N) ELSE Rat(0, 1)

\* the normal quantile norm.isf(0.025) of the 95% interval, 1.96, taken to one figure
crit == 2

\* statsmodels' proportion_confint(k, N, method="wilson"), N > 0
proportion_confint(k, N) ==
    LET q == Rat(k, N)
        crit2 == Rat(crit * crit, 1)
        denom == RatAdd(Rat(1, 1), RatDiv(crit2, Rat(N, 1)))
        center == RatDiv(RatAdd(q, RatDiv(crit2, Rat(2 * N, 1))), denom)
        inner == RatAdd(RatDiv(RatMul(q, RatSub(Rat(1, 1), q)), Rat(N, 1)),
                        RatDiv(crit2, Rat(4 * N * N, 1)))
        \* (crit * sqrt(inner) / denom) squared
        dist2 == RatDiv(RatMul(crit2, inner), RatMul(denom, denom))
    IN  [lower |-> Surd(center, -1, dist2), upper |-> Surd(center, 1, dist2)]

\* the guard of get_ineff_err
invalid_k_N(k, N) == k > N \/ k < 0 \/ N < 0

\* the value of get_ineff_err past its guard, N > 0, with the bounds swapped
ineff_err_of_swapped(k, N, conservative) ==
    LET ci == proportion_confint(k, N)
        point == Rat(k, N)
    IN  IF conservative THEN SurdAbs(SurdHalf(SurdSub(ci.lower, point)))
        ELSE SurdAbs(SurdHalf(SurdSub(ci.upper, point)))

\* the value of get_ineff_err past its guard, N > 0
ineff_err_of(k, N, conservative) ==
    LET ci == proportion_confint(k, N)
        point == Rat(k, N)
    IN  IF conservative THEN SurdAbs(SurdHalf(SurdSub(ci.upper, point)))
        ELSE SurdAbs(SurdHalf(SurdSub(ci.lower, point)))

\* scanner.get_ineff(k, N)
get_ineff(k, N) ==
    /\ Running
    /\ scanner.made
    /\ ret' = Returned("get_ineff", "", ineff_of(k, N))
    /\ out' = Printed("get_ineff", << k, N >>, 0, << >>)
    /\ UNCHANGED << arrays, fields, scanner, hists, pool >>

\* scanner.get_ineff_err(k, N, conservative).  With N = 0 and k = 0 the guard lets
\* the call through and 0/0 follows: nan for numpy numbers, ZeroDivisionError for
\* python integers.
get_ineff_err(k, N, conservative) ==
    /\ Running
    /\ scanner.made
    /\ IF invalid_k_N(k, N)
       THEN /\ out' = Raised("get_ineff_err", << k, N, AsInt(conservative) >>, 0, << >>,
                             "ValueError")
            /\ UNCHANGED ret
       ELSE IF N = 0
       THEN \/ /\ out' = Raised("get_ineff_err", << k, N, AsInt(conservative) >>, 0, << >>,
                                "ZeroDivisionError")
               /\ UNCHANGED ret
            \/ /\ ret' = Returned("get_ineff_err", "", SurdNaN)
               /\ out' = Printed("get_ineff_err", << k, N, AsInt(conservative) >>, 0, << >>)
       ELSE /\ ret' = Returned("get_ineff_err", "", ineff_err_of(k, N, conservative))
            /\ out' = Printed("get_ineff_err", << k, N, AsInt(conservative) >>, 0, << >>)
    /\ UNCHANGED << arrays, fields, scanner, hists, pool >>

\* one row of arrays[f"fail_{thres}"], the upper comparison strict
fail_flags_strict(e, thres) ==
    [r \in Layers |->
        AsInt(RatLt(Rat(e.PEs_per_layer_T_sorted[r], 1), thres)
              /\ e.PEs_per_layer_T_sorted[r] >= 0)]

\* one row of arrays[f"fail_{thres}"]: per rank, sorted sum <= thres and >= 0
fail_flags(e, thres) ==
    [r \in Layers |->
        AsInt(RatLe(Rat(e.PEs_per_layer_T_sorted[r], 1), thres)
              /\ e.PEs_per_layer_T_sorted[r] >= 0)]

\* the table with the columns fail_{thres} of the thresholds T set
with_fail(s, T) ==
    [i \in 1 .. Len(s) |->
        [s[i] EXCEPT !.fail = [t \in (DOMAIN s[i].fail) \cup T |->
                                  IF t \in T THEN fail_flags(s[i], t) ELSE s[i].fail[t]]]]

\* k = ak.sum(arrays[f"fail_{thres}"][:, i_layer])
RECURSIVE failures(_, _, _)
failures(s, thres, i_layer) ==
    IF Len(s) = 0 THEN 0
    ELSE fail_flags(Head(s), thres)[i_layer] + failures(Tail(s), thres, i_layer)

\* the returned tuple (thresholds, ineff, ineff_err), from the failure counts k[r][i]
\* and the total N > 0
scan_result(th, k, N) ==
    [ thresholds |-> th,
      ineff |-> [r \in Layers |-> [i \in 1 .. Len(th) |-> ineff_of(k[r][i], N)]],
      ineff_err |-> [r \in Layers |-> [i \in 1 .. Len(th) |-> ineff_err_of(k[r][i], N, TRUE)]] ]

\* the result of a scan with N = 0 in numpy numbers: every k is 0
scan_result_empty(th) ==
    [ thresholds |-> th,
      ineff |-> [r \in Layers |-> [i \in 1 .. Len(th) |-> ineff_of(0, 0)]],
      ineff_err |-> [r \in Layers |-> [i \in 1 .. Len(th) |-> SurdNaN]] ]

\* the scan points at which the guard of get_ineff_err fires for some rank
invalid_points(th, k, N) ==
    { i \in 1 .. Len(th) : \E r \in Layers : invalid_k_N(k[r][i], N) }

first_of(I) == CHOOSE i \in I : \A j \in I : i <= j

\* scanner.scan_ineff_arrays(arrays).  It writes one column fail_{thres} per
\* threshold into the table it is given.  On a table of no events every k and N are 0
\* and the first call of get_ineff_err meets 0/0.
scan_ineff_arrays ==
    /\ Running
    /\ scanner.made
    /\ IF "PEs_per_layer_T_sorted" \notin fields
       THEN /\ out' = Raised("scan_ineff_arrays", << >>, Len(arrays), << >>,
                             "FieldNotFoundError")
            /\ UNCHANGED << arrays, fields, ret >>
       ELSE LET th == scanner.thresholds
                N == Len(arrays)
                k == [r \in Layers |-> [i \in 1 .. Len(th) |-> failures(arrays, th[i], r)]]
                bad == invalid_points(th, k, N)
                all == { th[i] : i \in 1 .. Len(th) }
            IN  /\ fields' = fields \cup {"fail_{thres}"}
                /\ IF bad # {}
                   THEN /\ arrays' = with_fail(arrays, { th[i] : i \in 1 .. first_of(bad) })
                        /\ out' = Raised("scan_ineff_arrays", << >>, N, << >>, "ValueError")
                        /\ UNCHANGED ret
                   ELSE IF N = 0
                   THEN \/ /\ arrays' = with_fail(arrays, {th[1]})
                           /\ out' = Raised("scan_ineff_arrays", << >>, N, << >>,
                                            "ZeroDivisionError")
                           /\ UNCHANGED ret
                        \/ /\ arrays' = with_fail(arrays, all)
                           /\ ret' = Returned("scan_ineff_arrays", "", scan_result_empty(th))
                           /\ out' = Printed("scan_ineff_arrays", << >>, N, << >>)
                   ELSE /\ arrays' = with_fail(arrays, all)
                        /\ ret' = Returned("scan_ineff_arrays", "", scan_result(th, k, N))
                        /\ out' = Printed("scan_ineff_arrays", << >>, N, << >>)
    /\ UNCHANGED << scanner, hists, pool >>

(***************************************************************************)
(* Histogrammer (src/Utils/histogrammer.py)                                *)
(***************************************************************************)
nbins_default == 100
x_range_lo_default == 0
x_range_hi_default == 500

EmptyHists == [made |-> FALSE, nbins |-> 0, bin_edges |-> << >>, h |-> << >>]

\* Histogrammer(nbins, x_range): four histograms of no entries on shared edges
Histogrammer(nbins, lo, hi) ==
    /\ Running
    /\ hists' = [made |-> TRUE, nbins |-> nbins,
                 bin_edges |-> linspace(lo, hi, nbins + 1),
                 h |-> [r \in Layers |-> [counts |-> [b \in 1 .. nbins |-> 0], n_fills |-> 0]]]
    /\ out' = Printed("Histogrammer", << nbins, lo, hi >>, 0, << >>)
    /\ UNCHANGED << arrays, fields, scanner, ret, pool >>

\* np.histogram(array, bins=edges): the bin of v, 0 when v is outside the range;
\* every bin is half-open but the last, which holds its right edge
bin_of(v, edges) ==
    LET nb == Len(edges) - 1
        x == Rat(v, 1)
    IN  IF RatLt(x, edges[1]) \/ RatLt(edges[nb + 1], x) THEN 0
        ELSE IF x = edges[nb + 1] THEN nb
        ELSE CHOOSE b \in 1 .. nb : RatLe(edges[b], x) /\ RatLt(x, edges[b + 1])

\* counts, _ = np.histogram(arrays['PEs_per_layer_T_sorted'][:, i_sort], bins=edges)
histogram(s, i_sort, edges) ==
    [b \in 1 .. (Len(edges) - 1) |->
        Cardinality({ i \in 1 .. Len(s) : bin_of(s[i].PEs_per_layer_T_sorted[i_sort], edges) = b })]

\* the most fills the model follows
MaxFills == 2

\* histogrammer.acc_hists(arrays)
acc_hists ==
    /\ Running
    /\ hists.made
    /\ \A r \in Layers : hists.h[r].n_fills < MaxFills
    /\ IF "PEs_per_layer_T_sorted" \notin fields
       THEN /\ out' = Raised("acc_hists", << >>, Len(arrays), << >>, "ValueError")
            /\ UNCHANGED hists
       ELSE /\ hists' = [hists EXCEPT !.h = [r \in Layers |->
                            LET counts == histogram(arrays, r, hists.bin_edges)
                            IN  [counts |-> [b \in 1 .. hists.nbins |->
                                                hists.h[r].counts[b] + counts[b]],
                                 n_fills |-> hists.h[r].n_fills + 1]]]
            /\ out' = Printed("acc_hists", << >>, Len(arrays), << >>)
    /\ UNCHANGED << arrays, fields, scanner, ret, pool >>

(***************************************************************************)
(* ScanInefficiency on histograms                                          *)
(***************************************************************************)
\* np.sum(counts)
total_count(counts) == SumRow([b \in 0 .. (Len(counts) - 1) |-> counts[b + 1]], Len(counts))

\* k = np.sum(counts[bin_edges[:-1] < thres])
count_below(counts, bin_edges, thres) ==
    total_count([b \in 1 .. Len(counts) |->
                    IF RatLt(bin_edges[b], thres) THEN counts[b] ELSE 0])

\* scanner.scan_ineff_hists(hists), on the Histogrammer's histograms.  The loop runs
\* over the ranks and then the thresholds and stops at the first get_ineff_err that
\* raises; k and N are numpy floats, so 0/0 gives nan and raises nothing.
scan_ineff_hists ==
    /\ Running
    /\ scanner.made
    /\ hists.made
    /\ LET th == scanner.thresholds
           N == total_count(hists.h[n_layers - 1].counts)
           k == [r \in Layers |-> [i \in 1 .. Len(th) |->
                    count_below(hists.h[r].counts, hists.bin_edges, th[i])]]
       IN  IF invalid_points(th, k, N) # {}
           THEN /\ out' = Raised("scan_ineff_hists", << >>, N, << >>, "ValueError")
                /\ UNCHANGED ret
           ELSE /\ ret' = Returned("scan_ineff_hists", "",
                                   IF N = 0 THEN scan_result_empty(th)
                                   ELSE scan_result(th, k, N))
                /\ out' = Printed("scan_ineff_hists", << >>, N, << >>)
    /\ UNCHANGED << arrays, fields, scanner, hists, pool >>

(***************************************************************************)
(* Processor.process_files_parallel (src/Utils/processor.py).  The main    *)
(* thread submits one read per file to a thread pool, then takes the       *)
(* futures from as_completed: first, in no particular order, those that    *)
(* had finished when as_completed was entered, then the others in the      *)
(* order they finish.  The workers run while the main thread submits.      *)
(***************************************************************************)
\* the most files in a file list
MaxFiles == 3

\* the events file f holds: one, two, none, one, ...
n_file_events(f) == f % 3

\* the table process_single_file returns for file f
file_table(f) == [j \in 1 .. n_file_events(f) |-> NewEvent(j, Grid(f, 1, 0, 0, j))]

NoPool ==
    [ pc |-> "idle", filelist |-> << >>, max_workers |-> 0, status |-> << >>,
      finish_order |-> << >>, early |-> {}, yielded |-> {}, results |-> << >>,
      completed_files |-> 0 ]

\* the positions of the file list in state st
in_state(st) == { i \in 1 .. Len(pool.filelist) : pool.status[i] = st }

none_workers == 0

\* process_files_parallel(filelist, max_workers) up to the creation of the pool;
\* max_workers = none_workers stands for None.  ThreadPoolExecutor rejects
\* max_workers <= 0.
process_files_parallel(filelist, max_workers) ==
    /\ Running
    /\ pool.pc = "idle"
    /\ LET workers == IF max_workers = none_workers THEN Len(filelist) ELSE max_workers
       IN  IF workers <= 0
           THEN /\ out' = Raised("process_files_parallel", << max_workers >>,
                                 Len(filelist), << >>, "ValueError")
                /\ UNCHANGED pool
           ELSE /\ pool' = [NoPool EXCEPT !.pc = "submitting",
                                          !.filelist = filelist,
                                          !.max_workers = workers,
                                          !.status = [i \in 1 .. Len(filelist) |-> "unsubmitted"]]
                /\ out' = Printed("process_files_parallel", << max_workers >>,
                                  Len(filelist), << workers, Len(filelist) >>)
    /\ UNCHANGED << arrays, fields, scanner, hists, ret >>

\* executor.submit(self.process_single_file, file), for the files in list order
submit ==
    /\ pool.pc = "submitting"
    /\ in_state("unsubmitted") # {}
    /\ LET i == first_of(in_state("unsubmitted"))
       IN  pool' = [pool EXCEPT !.status[i] = "queued"]
    /\ UNCHANGED << arrays, fields, out, scanner, hists, ret >>

\* a free worker thread takes the oldest queued read
worker_start ==
    /\ pool.pc \in {"submitting", "collecting"}
    /\ in_state("queued") # {}
    /\ Cardinality(in_state("running")) < pool.max_workers
    /\ LET i == first_of(in_state("queued"))
       IN  pool' = [pool EXCEPT !.status[i] = "running"]
    /\ UNCHANGED << arrays, fields, out, scanner, hists, ret >>

\* process_single_file returns its table or raises; the future is then finished
worker_finish(i, ok) ==
    /\ pool.pc \in {"submitting", "collecting"}
    /\ i \in in_state("running")
    /\ pool' = [pool EXCEPT !.status[i] = IF ok THEN "ok" ELSE "failed",
                            !.finish_order = Append(@, i)]
    /\ UNCHANGED << arrays, fields, out, scanner, hists, ret >>

\* as_completed(futures) is entered once every file is submitted: it notes the
\* futures already finished
as_completed ==
    /\ pool.pc = "submitting"
    /\ in_state("unsubmitted") = {}
    /\ pool' = [pool EXCEPT !.pc = "collecting",
                            !.early = in_state("ok") \cup in_state("failed")]
    /\ UNCHANGED << arrays, fields, out, scanner, hists, ret >>

\* the futures as_completed may yield next: any of those finished at its entry
\* (it iterates a set of them); after them, the first to have finished since
yieldable ==
    IF pool.early \ pool.yielded # {} THEN pool.early \ pool.yielded
    ELSE LET late == Select(pool.finish_order,
                            [k \in 1 .. Len(pool.finish_order) |->
                                pool.finish_order[k] \notin pool.early \cup pool.yielded])
         IN  IF Len(late) = 0 THEN {} ELSE {Head(late)}

\* the results list after the future of file i, a failed read's included
results_after_any(results, i, ok) == Append(results, i)

\* results.append(result) in the try block: future.result() raises for a failed read
results_after(results, i, ok) == IF ok THEN Append(results, i) ELSE results

\* one pass of the loop over as_completed: the try block, or the except block
collect(i) ==
    /\ pool.pc = "collecting"
    /\ i \in yieldable
    /\ LET ok == pool.status[i] = "ok"
       IN  pool' = [pool EXCEPT !.yielded = @ \cup {i},
                                !.results = results_after(@, i, ok),
                                !.completed_files = IF ok THEN @ + 1 ELSE @]
    /\ UNCHANGED << arrays, fields, out, scanner, hists, ret >>

\* ak.concatenate(results)
RECURSIVE concatenate(_, _)
concatenate(filelist, results) ==
    IF Len(results) = 0 THEN << >>
    ELSE file_table(filelist[Head(results)]) \o concatenate(filelist, Tail(results))

\* after the loop: the merged table, or None when no read succeeded
merge ==
    /\ pool.pc = "collecting"
    /\ pool.yielded = 1 .. Len(pool.filelist)
    /\ pool' = [pool EXCEPT !.pc = "done"]
    /\ IF Len(pool.results) > 0
       THEN LET merged == concatenate(pool.filelist, pool.results)
            IN  /\ arrays' = merged
                /\ fields' = RawFields
                /\ ret' = Returned("process_files_parallel", "arrays", merged)
                /\ out' = Printed("process_files_parallel", << pool.max_workers >>,
                                  Len(pool.filelist),
                                  << pool.completed_files, Len(pool.filelist), Len(merged) >>)
       ELSE /\ ret' = Returned("process_files_parallel", "None", << >>)
            /\ UNCHANGED << arrays, fields, out >>
    /\ UNCHANGED << scanner, hists >>

\* before any analysis object is built and before any file is read
InitAnalysis ==
    /\ scanner = NoScanner
    /\ hists = EmptyHists
    /\ ret = NoRet
    /\ pool = NoPool

(***************************************************************************)
(* Specification of the cleaning stage alone                               *)
(***************************************************************************)
\* one negative channel on the first, a middle and the last board; none; zeros;
\* channel 0 negative on seven boards at once
CleanGrids ==
    { Grid(3, 1, 0, 0, -1), Grid(3, 1, 3, 17, -1), Grid(3, 1, 7, 63, -1),
      Grid(0, 1, 1, 63, -5), Grid(0, 1, 6, 0, -1), Grid(50, 1, 5, 32, -1),
      Grid(3, 1, 0, 0, 3), Grid(50, 1, 0, 0, 50), Grid(0, 1, 0, 0, 0),
      Grid(-2, 64, 0, 0, 5) }

InitClean ==
    /\ arrays \in TablesOf(CleanGrids, MaxEvents)
    /\ fields = RawFields
    /\ out = NoOut
    /\ InitAnalysis

NextClean == remove_negative_PEs

SpecClean == InitClean /\ [][NextClean]_vars

(***************************************************************************)
(* Specification of the layer mapping alone                                *)
(***************************************************************************)
MapGrids == { Ramp, RampDown, Grid(1, 1, 0, 0, 1), Grid(0, 1, 0, 15, 7), Grid(0, 1, 6, 32, 7) }

InitMap ==
    /\ arrays \in TablesOf(MapGrids, MaxEvents)
    /\ fields = RawFields
    /\ out = NoOut
    /\ InitAnalysis

NextMap ==
    \/ crv_L_end
    \/ \E single_ended \in BOOLEAN : crv_T(single_ended)
    \/ crv_DS

SpecMap == InitMap /\ [][NextMap]_vars

(***************************************************************************)
(* Specification of the layer mapping on grids that hold a NaN             *)
(***************************************************************************)
NaNGrids ==
    { Grid(1, 1, 6, 5, NaN), Grid(1, 1, 2, 40, NaN), Grid(1, 1, 0, 20, NaN),
      Grid(1, 1, 4, 3, NaN), Grid(1, 1, 0, 0, 1) }

InitNaN ==
    /\ arrays \in TablesOf(NaNGrids, MaxEvents)
    /\ fields = RawFields
    /\ out = NoOut
    /\ InitAnalysis

SpecNaN == InitNaN /\ [][NextMap]_vars

(***************************************************************************)
(* Tables with the three modules mapped, as the cut and trigger stages     *)
(* receive them                                                            *)
(***************************************************************************)
MapAll(s, single_ended) ==
    LET L == l_end_reshape(s)
        T == IF single_ended THEN T_reshape_single(s) ELSE T_reshape_double(s)
        D == DS_reshape(s)
    IN  [i \in 1 .. Len(s) |->
            [s[i] EXCEPT !.PEs_per_layer_L_end = L[i],
                         !.PEs_per_layer_T = T[i],
                         !.PEs_per_layer_DS = D[i]]]

InitMapped(F) ==
    /\ \E t \in SubTables(F, MaxEvents) : \E single_ended \in BOOLEAN :
          arrays = MapAll(t, single_ended)
    /\ fields = RawFields \cup LayerFields
    /\ out = NoOut
    /\ InitAnalysis

(***************************************************************************)
(* Specification of the trigger stage on mapped tables                     *)
(***************************************************************************)
\* one channel in 16 holds 6, so every layer of L-end and DS sums to 12; one value is
\* then moved to put a layer at 10 or 11, or to change the T boards only
TrigFixtures ==
    << Grid(6, 16, 0, 0, 6), Grid(6, 16, 6, 0, 4), Grid(6, 16, 6, 0, 5),
       Grid(6, 16, 0, 48, 4), Grid(6, 16, 2, 0, 0), Grid(6, 16, 3, 33, 100),
       Grid(0, 1, 0, 0, 0) >>

InitTrig == InitMapped(TrigFixtures)

NextTrig ==
    \/ \E thres \in {thres_default, 11} : get_triggers(thres)
    \/ fiducial_cut(lo_chan_default, hi_chan_default, TRUE)
    \/ fiducial_cut(0, 16, TRUE)

SpecTrig == InitTrig /\ [][NextTrig]_vars

(***************************************************************************)
(* Specification of the channel-multiplicity cut                           *)
(***************************************************************************)
\* the first n channel slots, counted across the boards first, hold w; the rest hold z
HitsGrid(n, w, z) ==
    [b \in Febs |-> [c \in Channels |-> IF n_febs * c + b < n THEN w ELSE z]]

HitsFixtures ==
    << HitsGrid(15, 1, 0), HitsGrid(16, 1, 0), HitsGrid(35, 2, 0), HitsGrid(36, 1, 0),
       HitsGrid(39, 1, 0), HitsGrid(40, 1, 0), HitsGrid(16, 3, -1), HitsGrid(41, 1, -2),
       HitsGrid(0, 0, 0) >>

InitHits ==
    /\ arrays \in SubTables(HitsFixtures, MaxEvents)
    /\ fields = RawFields
    /\ out = NoOut
    /\ InitAnalysis

NextHits ==
    \E verbose \in BOOLEAN :
        counters_hit_cut(min_counter_hits_default, max_counter_hits_default, verbose)

SpecHits == InitHits /\ [][NextHits]_vars

(***************************************************************************)
(* Specification of the total-signal and fiducial cuts on mapped tables    *)
(***************************************************************************)
\* flat grids with one value moved so that the total over the three modules is
\* 899, 900, 2249 or 2250 single-ended; the last has its excess outside the
\* fiducial channels
CutFixtures ==
    << Grid(2, 1, 6, 12, 133), Grid(2, 1, 6, 12, 134), Grid(5, 1, 6, 12, 334),
       Grid(5, 1, 6, 12, 335), Grid(3, 1, 6, 0, 40), Grid(2, 1, 6, 0, 134) >>

InitCuts == InitMapped(CutFixtures)

NextCuts ==
    \/ \E verbose \in BOOLEAN : tot_PE_cut(min_PEs_default, max_PEs_default, verbose)
    \/ \E verbose \in BOOLEAN : fiducial_cut(lo_chan_default, hi_chan_default, verbose)
    \/ fiducial_cut(16, 31, TRUE)
    \/ get_triggers(thres_default)

SpecCuts == InitCuts /\ [][NextCuts]_vars

(***************************************************************************)
(* The pipeline: every stage, in any order, from a raw table               *)
(***************************************************************************)
\* an event that passes every default cut and triggers; one whose L-end layer 0 is hit
\* only through a channel outside the fiducial range; one with a negative channel;
\* one with no signal
PipeFixtures ==
    << Grid(40, 16, 0, 0, 40), Grid(40, 16, 6, 16, 0), Grid(40, 16, 0, 5, -1),
       Grid(0, 1, 0, 0, 0) >>

\* a table read from file holds at least one event
Init ==
    /\ arrays \in { t \in SubTables(PipeFixtures, MaxEvents) : Len(t) > 0 }
    /\ fields = RawFields
    /\ out = NoOut
    /\ InitAnalysis

Next ==
    \/ remove_negative_PEs
    \/ crv_L_end
    \/ \E single_ended \in BOOLEAN : crv_T(single_ended)
    \/ crv_DS
    \/ tot_PE_cut(min_PEs_default, max_PEs_default, TRUE)
    \/ fiducial_cut(lo_chan_default, hi_chan_default, TRUE)
    \/ counters_hit_cut(min_counter_hits_default, max_counter_hits_default, TRUE)
    \/ get_triggers(thres_default)
    \/ apply_triggers

Spec == Init /\ [][Next]_vars

(***************************************************************************)
(* Specification of the layer sorter on mapped tables, the L-end array     *)
(* masked or not                                                           *)
(***************************************************************************)
\* layer sums ascending, descending, tied at 0 but for one layer, negative in one
\* layer, one L-end layer above the others, all equal
SortFixtures ==
    << Ramp, RampDown, Grid(0, 1, 2, 0, 7), Grid(1, 1, 3, 40, -50), Grid(0, 1, 6, 40, 9),
       Grid(5, 1, 0, 0, 5) >>

InitSort == InitMapped(SortFixtures)

NextSort ==
    \/ \E name \in LayerFields : sort_layer_PEs(name)
    \/ fiducial_cut(lo_chan_default, hi_chan_default, TRUE)

SpecSort == InitSort /\ [][NextSort]_vars

(***************************************************************************)
(* Specification of the scanner's construction and of its two formulas     *)
(***************************************************************************)
\* the largest number of trials N and of failures k handed to the formulas
MaxTrials == 3

InitScanner ==
    /\ arrays = << >>
    /\ fields = {}
    /\ out = NoOut
    /\ InitAnalysis

NextScanner ==
    \/ \E start \in {0, 10} : \E stop \in {0, 10, 20} : \E steps \in 0 .. 4 :
          ScanInefficiency(start, stop, steps)
    \/ ScanInefficiency(start_default, stop_default, steps_default)
    \/ \E k \in 0 .. MaxTrials : \E N \in 0 .. MaxTrials : get_ineff(k, N)
    \/ \E k \in -1 .. MaxTrials : \E N \in 0 .. MaxTrials : \E conservative \in BOOLEAN :
          get_ineff_err(k, N, conservative)

SpecScanner == InitScanner /\ [][NextScanner]_vars

(***************************************************************************)
(* Tables that carry the sorted T layer sums, as the scanner and the       *)
(* histogrammer receive them                                               *)
(***************************************************************************)
\* raw grid whose single-ended T layers sum to a, b, c and d
TGrid(a, b, c, d) ==
    [f \in Febs |-> [ch \in Channels |->
        IF f = 2 /\ ch = 0 THEN a
        ELSE IF f = 2 /\ ch = n_channels_per_layer THEN b
        ELSE IF f = 3 /\ ch = 0 THEN c
        ELSE IF f = 3 /\ ch = n_channels_per_layer THEN d
        ELSE 0]]

\* arrays["PEs_per_layer_T_sorted"] = Sort().sort_layer_PEs(arrays["PEs_per_layer_T"])
WithSorted(s) ==
    LET v == sorted_layers(s, "PEs_per_layer_T")
    IN  [i \in 1 .. Len(s) |->
            [s[i] EXCEPT !.PEs_per_layer_T_sorted = [r \in Layers |-> v[i][r + 1]]]]

InitSorted(F) ==
    /\ \E t \in SubTables(F, MaxEvents) : arrays = WithSorted(MapAll(t, TRUE))
    /\ fields = RawFields \cup LayerFields \cup {"PEs_per_layer_T_sorted"}
    /\ out = NoOut
    /\ InitAnalysis

(***************************************************************************)
(* Specification of the scan over sorted sums                              *)
(***************************************************************************)
\* sorted sums on, between and beyond the thresholds 10, 15 and 20; a negative
\* weakest sum; no signal
ScanFixtures ==
    << TGrid(600, 15, 40, 3), TGrid(21, 10, 20, 11), TGrid(16, -2, 501, 16),
       TGrid(15, 15, 15, 15), TGrid(0, 0, 0, 0) >>

InitScan == InitSorted(ScanFixtures)

NextScan ==
    \/ ScanInefficiency(10, 20, 3)
    \/ ScanInefficiency(0, 10, 4)
    \/ scan_ineff_arrays

SpecScan == InitScan /\ [][NextScan]_vars

(***************************************************************************)
(* Specification of the scan over histograms of sorted sums                *)
(***************************************************************************)
\* a strongest sum above the histogram range; all sums in range; a negative weakest
\* sum with the strongest above the range; a strongest sum on the last edge; no signal
HistFixtures ==
    << TGrid(600, 15, 40, 3), TGrid(21, 10, 20, 11), TGrid(16, -2, 501, 16),
       TGrid(500, 5, 10, 14), TGrid(0, 0, 0, 0) >>

InitHist == InitSorted(HistFixtures)

NextHist ==
    \/ ScanInefficiency(10, 20, 3)
    \/ Histogrammer(nbins_default, x_range_lo_default, x_range_hi_default)
    \/ acc_hists
    \/ scan_ineff_hists

SpecHist == InitHist /\ [][NextHist]_vars

(***************************************************************************)
(* Specification of the parallel file reading                              *)
(***************************************************************************)
\* the file lists: files 1 .. n, n up to MaxFiles
FileLists == { [i \in 1 .. n |-> i] : n \in 0 .. MaxFiles }

InitFiles ==
    /\ arrays = << >>
    /\ fields = {}
    /\ out = NoOut
    /\ InitAnalysis

NextFiles ==
    \/ \E filelist \in FileLists : \E max_workers \in {none_workers, 1, 2} :
          process_files_parallel(filelist, max_workers)
    \/ submit
    \/ worker_start
    \/ \E i \in 1 .. MaxFiles : \E ok \in BOOLEAN : worker_finish(i, ok)
    \/ as_completed
    \/ \E i \in 1 .. MaxFiles : collect(i)
    \/ merge

SpecFiles == InitFiles /\ [][NextFiles]_vars

(***************************************************************************)
(* Claims                                                                  *)
(***************************************************************************)
NonNegativeEvent(e) ==
    \A b \in Febs : \A c \in Channels : e.PEsTemperatureCorrected[b][c] >= 0

Occurs(e, s) == \E j \in 1 .. Len(s) : s[j] = e

InInputOrder(s) ==
    \A j, k \in 1 .. Len(s) : j < k => s[j].eventNumber < s[k].eventNumber

\* C1: remove_negative_PEs returns exactly the events of its input in which no value of
\* the 8 x 64 grid is negative, in their original order, and returns its own output
\* unchanged when applied to it again.
C1_CleanKeepsExactlyNonNegative ==
    [][out'.op = "remove_negative_PEs" =>
          /\ \A i \in 1 .. Len(arrays) :
                Occurs(arrays[i], arrays') <=> NonNegativeEvent(arrays[i])
          /\ \A j \in 1 .. Len(arrays') : Occurs(arrays'[j], arrays)
          /\ InInputOrder(arrays')
          /\ Clean_result(arrays') = arrays'
          /\ (out.op = "remove_negative_PEs" => arrays' = arrays)]_vars

\* a two-event table lost its event with one negative channel and kept the other
C1_Witness ==
    /\ out.op = "remove_negative_PEs"
    /\ out.n_in = 2
    /\ out.printed[1] = 1
    /\ Len(arrays) = 1
    /\ NonNegativeEvent(arrays[1])

HasShape(x) ==
    /\ DOMAIN x = Layers
    /\ \A l \in Layers : DOMAIN x[l] = LayerChannels

AllLayersMatched == out'.raised = "none" /\ out'.printed = << 1, 1, 1, 1 >>

\* C2: crv_L_end stores L_end[l][c] = raw[6 + l div 2][32*(l mod 2) + c]; crv_T stores
\* T[l][c] = raw[2 + l div 2][32*(l mod 2) + c] single-ended and that value plus
\* raw[4 + l div 2][32*(l mod 2) + c] double-ended; each result is 4 x 32 per event and
\* the self-check finds every layer equal to its per-slice reconstruction.
C2_LayerMapping ==
    [][/\ out'.op = "crv_L_end" =>
            /\ Len(arrays') = Len(arrays)
            /\ AllLayersMatched
            /\ \A i \in 1 .. Len(arrays) :
                  /\ HasShape(arrays'[i].PEs_per_layer_L_end)
                  /\ \A l \in Layers : \A c \in LayerChannels :
                        arrays'[i].PEs_per_layer_L_end[l][c] =
                            arrays[i].PEsTemperatureCorrected[6 + (l \div 2)][32 * (l % 2) + c]
       /\ out'.op = "crv_T" =>
            /\ Len(arrays') = Len(arrays)
            /\ AllLayersMatched
            /\ \A i \in 1 .. Len(arrays) :
                  /\ HasShape(arrays'[i].PEs_per_layer_T)
                  /\ \A l \in Layers : \A c \in LayerChannels :
                        arrays'[i].PEs_per_layer_T[l][c] =
                            IF out'.args = << 1 >>
                            THEN arrays[i].PEsTemperatureCorrected[2 + (l \div 2)][32 * (l % 2) + c]
                            ELSE arrays[i].PEsTemperatureCorrected[2 + (l \div 2)][32 * (l % 2) + c]
                                 + arrays[i].PEsTemperatureCorrected[4 + (l \div 2)][32 * (l % 2) + c]
      ]_vars

\* both modules mapped on a two-event table, the T module last and double-ended
C2_Witness ==
    /\ out.op = "crv_T"
    /\ out.args = << 0 >>
    /\ "PEs_per_layer_L_end" \in fields
    /\ Len(arrays) = 2
    /\ arrays[2].PEsTemperatureCorrected = Ramp
    /\ arrays[2].PEs_per_layer_T[3][0] = Ramp[3][32] + Ramp[5][32]
    /\ arrays[2].PEs_per_layer_L_end[1][31] = Ramp[6][63]

\* C3: crv_DS stores, for every layer l, channels 0..15 = raw board 1 channels
\* 16l .. 16l+15 and channels 16..31 = raw board 0 channels 16l+15 down to 16l, so the
\* 16 + 16 channels of a layer come from the same 16-channel range and never straddle.
C3_DSMapping ==
    [][out'.op = "crv_DS" =>
            /\ Len(arrays') = Len(arrays)
            /\ \A i \in 1 .. Len(arrays) :
                  /\ HasShape(arrays'[i].PEs_per_layer_DS)
                  /\ \A l \in Layers : \A c \in LayerChannels :
                        arrays'[i].PEs_per_layer_DS[l][c] =
                            IF c < 16
                            THEN arrays[i].PEsTemperatureCorrected[1][16 * l + c]
                            ELSE arrays[i].PEsTemperatureCorrected[0][16 * l + 15 - (c - 16)]
      ]_vars

\* the DS module mapped on a two-event table of distinct values
C3_Witness ==
    /\ out.op = "crv_DS"
    /\ Len(arrays) = 2
    /\ arrays[2].PEsTemperatureCorrected = Ramp
    /\ arrays[2].PEs_per_layer_DS[1][16] = Ramp[0][31]
    /\ arrays[2].PEs_per_layer_DS[3][15] = Ramp[1][63]

RECURSIVE SetSum(_, _)
SetSum(f, S) ==
    IF S = {} THEN 0
    ELSE LET x == CHOOSE y \in S : TRUE
         IN  f[x] + SetSum(f, S \ {x})

\* the sum of the channels of L-end layer l that are not missing
PresentSumL(e, l) ==
    SetSum(e.PEs_per_layer_L_end[l], { c \in LayerChannels : e.L_end_valid[l][c] })

SumT(e, l) == SetSum(e.PEs_per_layer_T[l], LayerChannels)
SumDS(e, l) == SetSum(e.PEs_per_layer_DS[l], LayerChannels)

SameLEndAndDS(e, f) ==
    /\ e.PEs_per_layer_L_end = f.PEs_per_layer_L_end
    /\ e.L_end_valid = f.L_end_valid
    /\ e.PEs_per_layer_DS = f.PEs_per_layer_DS

\* C4: get_triggers sets trig for an event iff each of its 4 L-end layer sums and each
\* of its 4 DS layer sums is strictly greater than the threshold; events that differ
\* only in the T module get the same flag.
C4_TriggerIgnoresT ==
    (out.op = "get_triggers" /\ out.raised # "ValueError") =>
        /\ \A i \in 1 .. Len(arrays) :
              arrays[i].trig <=>
                  /\ \A l \in Layers : PresentSumL(arrays[i], l) > out.args[1]
                  /\ \A l \in Layers : SumDS(arrays[i], l) > out.args[1]
        /\ \A i, j \in 1 .. Len(arrays) :
              SameLEndAndDS(arrays[i], arrays[j]) => arrays[i].trig = arrays[j].trig

\* two triggered events with the same L-end and DS arrays, and a T layer that is above
\* the threshold in one and not in the other
C4_Witness ==
    /\ out.op = "get_triggers"
    /\ out.args = << thres_default >>
    /\ Len(arrays) = 2
    /\ SameLEndAndDS(arrays[1], arrays[2])
    /\ SumT(arrays[1], 0) > thres_default
    /\ SumT(arrays[2], 0) <= thres_default
    /\ arrays[1].trig
    /\ arrays[2].trig

PositiveCount(e) ==
    Cardinality({ bc \in Febs \X Channels : e.PEsTemperatureCorrected[bc[1]][bc[2]] > 0 })

KeepsExactly(P(_)) ==
    /\ \A i \in 1 .. Len(arrays) : Occurs(arrays[i], arrays') <=> P(arrays[i])
    /\ \A j \in 1 .. Len(arrays') : Occurs(arrays'[j], arrays)
    /\ InInputOrder(arrays')

HitsIn16To36(e) == PositiveCount(e) >= 16 /\ PositiveCount(e) < 36
HitsIn16To40(e) == PositiveCount(e) >= 16 /\ PositiveCount(e) < 40

DefaultHitsCall ==
    /\ out'.op = "counters_hit_cut"
    /\ out'.args = << min_counter_hits_default, max_counter_hits_default >>

\* C5 as stated: counters_hit_cut with its default arguments keeps exactly the events
\* with at least 16 and fewer than 36 raw channels above 0.
C5_Original_HitsBelow36 ==
    [][DefaultHitsCall => KeepsExactly(HitsIn16To36)]_vars

\* C5 amended: counters_hit_cut with its default arguments keeps exactly the events
\* with at least 16 and fewer than 40 raw channels above 0 (the default upper limit is
\* 2*((2*8)+(4)) = 40).
C5_HitsBelow40 ==
    [][DefaultHitsCall => KeepsExactly(HitsIn16To40)]_vars

\* of two events the cut kept the one with 36 to 39 channels above 0
C5_Witness ==
    /\ out.op = "counters_hit_cut"
    /\ out.n_in = 2
    /\ Len(arrays) = 1
    /\ PositiveCount(arrays[1]) >= 36
    /\ PositiveCount(arrays[1]) < 40

InRange(c, lo, hi) == lo <= c /\ c <= hi

\* C6: fiducial_cut removes no event; it makes every L-end channel outside
\* lo_chan..hi_chan missing and leaves the channels inside as they were; afterwards the
\* L-end layer sum is the sum of the channels inside the range, and that is the sum
\* get_triggers and tot_PE_cut use.
C6_FiducialMasksOnly ==
    [][/\ out'.op = "fiducial_cut" =>
            /\ Len(arrays') = Len(arrays)
            /\ \A i \in 1 .. Len(arrays) :
                  /\ arrays'[i] = [arrays[i] EXCEPT !.L_end_valid = arrays'[i].L_end_valid]
                  /\ \A l \in Layers :
                        /\ \A c \in LayerChannels :
                              arrays'[i].L_end_valid[l][c] =
                                  (arrays[i].L_end_valid[l][c]
                                      /\ InRange(c, out'.args[1], out'.args[2]))
                        /\ layer_sums_L_end(arrays'[i])[l] =
                              SetSum(arrays[i].PEs_per_layer_L_end[l],
                                     { c \in out'.args[1] .. out'.args[2] :
                                           arrays[i].L_end_valid[l][c] })
       /\ (out'.op = "get_triggers" /\ out'.raised # "ValueError") =>
            \A i \in 1 .. Len(arrays) : \A l \in Layers :
                arrays'[i].trig_L_end_layers[l] =
                    AsInt(PresentSumL(arrays[i], l) > out'.args[1])
      ]_vars

\* a masked event that tot_PE_cut kept although its total with the masked channels
\* counted would reach max_PEs
C6_Witness ==
    /\ out.op = "tot_PE_cut"
    /\ \E i \in 1 .. Len(arrays) :
          /\ \E l \in Layers : \E c \in LayerChannels : ~ arrays[i].L_end_valid[l][c]
          /\ SetSum([l \in Layers |->
                        SetSum(arrays[i].PEs_per_layer_L_end[l], LayerChannels)
                            + SumT(arrays[i], l) + SumDS(arrays[i], l)], Layers)
                >= max_PEs_default

TotalPEs(e) ==
    SetSum([l \in Layers |-> PresentSumL(e, l) + SumT(e, l) + SumDS(e, l)], Layers)

\* C7: tot_PE_cut keeps exactly the events whose total over all layers and channels of
\* the current L-end, T and DS arrays satisfies min_PEs <= total < max_PEs.
C7_TotalPEBand ==
    [][(out'.op = "tot_PE_cut" /\ out'.raised # "FieldNotFoundError") =>
          LET InBand(e) == out'.args[1] <= TotalPEs(e) /\ TotalPEs(e) < out'.args[2]
          IN  KeepsExactly(InBand)]_vars

\* of two events the cut kept one whose total is exactly min_PEs
C7_Witness ==
    /\ out.op = "tot_PE_cut"
    /\ out.n_in = 2
    /\ Len(arrays) = 1
    /\ TotalPEs(arrays[1]) = min_PEs_default

\* C8: in every state the stored trigger flags of every event are the flags computed
\* from the table's current L-end and DS arrays.
C8_StoredFlagsAreCurrent ==
    "trig" \in fields =>
        \A i \in 1 .. Len(arrays) :
            /\ \A l \in Layers :
                  arrays[i].trig_L_end_layers[l] =
                      AsInt(PresentSumL(arrays[i], l) > thres_default)
            /\ arrays[i].trig_L_end =
                  (\A l \in Layers : PresentSumL(arrays[i], l) > thres_default)
            /\ arrays[i].trig =
                  /\ \A l \in Layers : PresentSumL(arrays[i], l) > thres_default
                  /\ \A l \in Layers : SumDS(arrays[i], l) > thres_default

CutAndTriggerOps == {"tot_PE_cut", "fiducial_cut", "counters_hit_cut", "get_triggers"}

\* C9: a cut or trigger stage called on a table that an earlier stage left empty, with
\* the fields it reads present, completes without raising.
C9_EmptyTableCompletes ==
    (/\ out.op \in CutAndTriggerOps
     /\ out.n_in = 0
     /\ out.raised \notin {"FieldNotFoundError", "ValueError"}) => out.raised = "none"

MapOps == {"crv_L_end", "crv_T", "crv_DS"}

\* C10: a mapping call whose self-check finds a mismatching layer still checks all four
\* layers and returns normally; none of crv_L_end, crv_T, crv_DS raises.
C10_SelfCheckNeverRaises ==
    out.op \in MapOps => (out.raised = "none" /\ Len(out.printed) = n_layers)

\* the sum of the channels present in layer l of the array stored under `name`
SumOfLayer(e, name, l) ==
    IF name = "PEs_per_layer_L_end" THEN PresentSumL(e, l)
    ELSE IF name = "PEs_per_layer_T" THEN SumT(e, l)
    ELSE SumDS(e, l)

Permutations4 == { p \in [1 .. n_layers -> 1 .. n_layers] : \A a, b \in 1 .. n_layers : a # b => p[a] # p[b] }

\* v holds the four layer sums of event e, each once, in some order
IsPermutationOfSums(v, e, name) ==
    \E p \in Permutations4 : \A k \in 1 .. n_layers : v[k] = SumOfLayer(e, name, p[k] - 1)

Ascending(v) == \A k \in 1 .. (Len(v) - 1) : v[k] <= v[k + 1]

\* C11: sort_layer_PEs returns, for every event in input order, four values that
\* are a permutation of the event's four layer sums and are in ascending order.
C11_SortedLayerSums ==
    [][out'.op = "sort_layer_PEs" =>
        /\ Len(ret'.value) = Len(arrays)
        /\ \A i \in 1 .. Len(arrays) :
              /\ Len(ret'.value[i]) = n_layers
              /\ IsPermutationOfSums(ret'.value[i], arrays[i], ret'.arg)
              /\ Ascending(ret'.value[i])]_vars

\* a sort of the T array has returned, for a table of two events, where the first
\* event's layer sums were in descending order and the second's held a tie
C11_Witness ==
    /\ out.op = "sort_layer_PEs"
    /\ ret.arg = "PEs_per_layer_T"
    /\ Len(arrays) = 2
    /\ SumT(arrays[1], 0) > SumT(arrays[1], 1)
    /\ SumT(arrays[1], 1) > SumT(arrays[1], 2)
    /\ SumT(arrays[2], 1) = SumT(arrays[2], 2)
    /\ ret.value[1][1] = SumT(arrays[1], 3)
    /\ ret.value[2][4] = SumT(arrays[2], 0)

\* x is the fraction n / d
IsFraction(x, n, d) == x.d > 0 /\ x.n * d = n * x.d

\* C14: a constructor call with stop <= start or steps < 2 raises and leaves no new
\* scanner; any other call builds a grid of `steps` thresholds from start to stop
\* inclusive, any two neighbours (stop - start) / (steps - 1) apart, and the
\* call (10, 20, 3) builds [10, 15, 20].
C14_ConstructorGrid ==
    [][out'.op = "ScanInefficiency" =>
        LET start == out'.args[1]
            stop == out'.args[2]
            steps == out'.args[3]
            th == scanner'.thresholds
        IN  IF stop <= start \/ steps < 2
            THEN out'.raised = "ValueError" /\ scanner' = scanner
            ELSE /\ out'.raised = "none"
                 /\ scanner'.made
                 /\ Len(th) = steps
                 /\ IsFraction(th[1], start, 1)
                 /\ IsFraction(th[steps], stop, 1)
                 /\ \A i \in 1 .. (steps - 1) :
                       IsFraction(RatSub(th[i + 1], th[i]), stop - start, steps - 1)
                 /\ (start = 10 /\ stop = 20 /\ steps = 3) =>
                       th = << [n |-> 10, d |-> 1], [n |-> 15, d |-> 1], [n |-> 20, d |-> 1] >>]_vars

\* the scanner of the call (10, 20, 3) exists, with 15 as its middle threshold
C14_Witness ==
    /\ out.op = "ScanInefficiency"
    /\ out.args = << 10, 20, 3 >>
    /\ scanner.made
    /\ scanner.thresholds[2] = [n |-> 15, d |-> 1]

IsZeroValue(v, op) ==
    IF op = "get_ineff" THEN v.n = 0
    ELSE ~ v.nan /\ v.p.n = 0 /\ v.r.n = 0

ZeroFailuresCall == out'.op \in {"get_ineff", "get_ineff_err"} /\ out'.args[1] = 0 /\ out'.args[2] > 0

\* C15 as stated: with k = 0 failures of N > 0 the scanner reports inefficiency 0 and
\* uncertainty 0, whether conservative or not.
C15_Original_ZeroUncertainty ==
    [][ZeroFailuresCall => out'.raised = "none" /\ IsZeroValue(ret'.value, out'.op)]_vars

\* C15 as amended: with k = 0 failures of N > 0 the inefficiency is 0; the
\* uncertainty is 0 with conservative=False (the lower Wilson bound is the point
\* estimate) and is half the upper Wilson bound, crit^2 / (2 (N + crit^2)) > 0, with
\* conservative=True.
C15_ZeroFailures ==
    [][ZeroFailuresCall =>
        /\ out'.raised = "none"
        /\ IF out'.op = "get_ineff" \/ out'.args[3] = 0
           THEN IsZeroValue(ret'.value, out'.op)
           ELSE /\ ~ ret'.value.nan
                /\ ret'.value.r.n = 0
                /\ IsFraction(ret'.value.p, crit * crit, 2 * (out'.args[2] + crit * crit))
                /\ ret'.value.p.n > 0]_vars

\* the default, conservative uncertainty of 0 failures in 3 trials has been returned
C15_Witness ==
    /\ out.op = "get_ineff_err"
    /\ out.args = << 0, 3, 1 >>
    /\ out.raised = "none"
    /\ ret.op = "get_ineff_err"
    /\ ret.value.p.n > 0

\* the events of s whose rank-r sorted sum v has 0 <= v <= t, t a fraction
FailingEvents(s, r, t) ==
    { j \in 1 .. Len(s) :
        /\ s[j].PEs_per_layer_T_sorted[r] >= 0
        /\ s[j].PEs_per_layer_T_sorted[r] * t.d <= t.n }

\* C12: on a table of N > 0 events scan_ineff_arrays returns, for every threshold t
\* of the sweep and every rank r, the number of events whose r-th sorted sum v has
\* 0 <= v <= t, divided by the table length N.
C12_ScanArrays ==
    [][(out'.op = "scan_ineff_arrays" /\ Len(arrays) > 0) =>
        /\ out'.raised = "none"
        /\ ret'.op = "scan_ineff_arrays"
        /\ ret'.value.thresholds = scanner.thresholds
        /\ \A r \in Layers : \A i \in 1 .. Len(scanner.thresholds) :
              IsFraction(ret'.value.ineff[r][i],
                         Cardinality(FailingEvents(arrays, r, scanner.thresholds[i])),
                         Len(arrays))]_vars

\* a scan at 10, 15 and 20 has returned for two events, one with a sorted sum of
\* exactly 15 at rank 1, counted at 15, the other with a negative sum at rank 0,
\* not counted at 20
C12_Witness ==
    /\ out.op = "scan_ineff_arrays"
    /\ out.raised = "none"
    /\ scanner.thresholds = << [n |-> 10, d |-> 1], [n |-> 15, d |-> 1], [n |-> 20, d |-> 1] >>
    /\ Len(arrays) = 2
    /\ arrays[1].PEs_per_layer_T_sorted[1] = 15
    /\ arrays[2].PEs_per_layer_T_sorted[1] = 16
    /\ arrays[2].PEs_per_layer_T_sorted[0] < 0
    /\ ret.value.ineff[1][1] = [n |-> 0, d |-> 1]
    /\ ret.value.ineff[1][2] = [n |-> 1, d |-> 2]
    /\ ret.value.ineff[0][3] = [n |-> 1, d |-> 2]

\* the bins of the histograms whose left edge is strictly below the fraction t
BinsBelow(t) ==
    { b \in 1 .. hists.nbins :
        LET left == hists.bin_edges[b] IN left.n * t.d < t.n * left.d }

\* the entries of the rank-r histogram in the bins B
EntriesIn(r, B) == SetSum(hists.h[r].counts, B)

HistTotal(r) == EntriesIn(r, 1 .. hists.nbins)

\* C13: scan_ineff_hists returns, for every threshold t and rank r, k / N with k the
\* entries of the rank-r histogram in the bins whose left edge is below t and N the
\* total of the rank-3 histogram (0 when N is 0).
C13_HistScanValues ==
    [][out'.op = "scan_ineff_hists" =>
        /\ out'.raised = "none"
        /\ ret'.op = "scan_ineff_hists"
        /\ \A r \in Layers : \A i \in 1 .. Len(scanner.thresholds) :
              LET k == EntriesIn(r, BinsBelow(scanner.thresholds[i]))
                  N == HistTotal(n_layers - 1)
              IN  IF N > 0 THEN IsFraction(ret'.value.ineff[r][i], k, N)
                  ELSE ret'.value.ineff[r][i].n = 0]_vars

\* C19: on histograms filled by acc_hists the histogram scan finds, for every rank
\* and threshold, 0 <= k <= N with N the rank-3 total, so it never raises and every
\* inefficiency it returns lies in [0, 1].
C19_HistScanInRange ==
    [][out'.op = "scan_ineff_hists" =>
        /\ \A r \in Layers : \A i \in 1 .. Len(scanner.thresholds) :
              LET k == EntriesIn(r, BinsBelow(scanner.thresholds[i]))
              IN  0 <= k /\ k <= HistTotal(n_layers - 1)
        /\ out'.raised = "none"
        /\ \A r \in Layers : \A i \in 1 .. Len(scanner.thresholds) :
              /\ 0 <= ret'.value.ineff[r][i].n
              /\ ret'.value.ineff[r][i].n <= ret'.value.ineff[r][i].d]_vars

\* C17: the count remove_negative_PEs computes and reports is the number of events
\* it removes, the length of its input less the length of its output.
C17_ReportedCountIsRemoved ==
    [][out'.op = "remove_negative_PEs" =>
        /\ Len(out'.printed) = 2
        /\ out'.printed[1] = Len(arrays) - Len(arrays')
        /\ out'.printed[2] = Len(arrays)]_vars

FilterOps == {"remove_negative_PEs", "tot_PE_cut", "counters_hit_cut", "apply_triggers"}

\* t is s with some events left out: the events of t are events of s, unchanged,
\* at strictly increasing positions
IsSubsequence(t, s) ==
    \E f \in [1 .. Len(t) -> 1 .. Len(s)] :
        /\ \A j \in 1 .. Len(t) : t[j] = s[f[j]]
        /\ \A j \in 1 .. (Len(t) - 1) : f[j] < f[j + 1]

\* C16: each filtering operation returns a subsequence of the table it is given, so
\* no stage ever adds an event and the survivors stay in their original order; and
\* apply_triggers keeps exactly the events whose trig flag is true.
C16_FiltersKeepOrder ==
    [][/\ out'.op \in FilterOps => IsSubsequence(arrays', arrays)
       /\ Len(arrays') <= Len(arrays)
       /\ InInputOrder(arrays')
       /\ (out'.op = "apply_triggers" /\ out'.raised = "none") =>
             /\ \A i \in 1 .. Len(arrays) : Occurs(arrays[i], arrays') <=> arrays[i].trig
             /\ \A j \in 1 .. Len(arrays') : arrays'[j].trig]_vars

\* apply_triggers was given two events and kept one, a triggered event
C16_Witness ==
    /\ out.op = "apply_triggers"
    /\ out.raised = "none"
    /\ out.n_in = 2
    /\ Len(arrays) = 1
    /\ arrays[1].trig

\* the events of the files at the positions `order` of the file list, file after
\* file, each file's events in their order in the file
RECURSIVE EventsOf(_)
EventsOf(order) ==
    IF Len(order) = 0 THEN << >>
    ELSE LET f == pool.filelist[Head(order)]
         IN  [j \in 1 .. (f % 3) |-> NewEvent(j, Grid(f, 1, 0, 0, j))] \o EventsOf(Tail(order))

ReadOk == { i \in 1 .. Len(pool.filelist) : pool.status[i] = "ok" }

\* the successfully read files in the order they finished
CompletionOrder ==
    Select(pool.finish_order,
           [k \in 1 .. Len(pool.finish_order) |-> pool.finish_order[k] \in ReadOk])

\* the orders in which the successfully read files can be listed, each once
OrdersOfReadOk ==
    { o \in [1 .. Cardinality(ReadOk) -> ReadOk] :
        \A a, b \in 1 .. Cardinality(ReadOk) : a # b => o[a] # o[b] }

FinishedBefore(x, y) ==
    \E a, b \in 1 .. Len(pool.finish_order) :
        a < b /\ pool.finish_order[a] = x /\ pool.finish_order[b] = y

\* C18 as stated: whatever the interleaving and whichever reads fail, the merged
\* table holds exactly the events of the files read successfully, file after file
\* in completion order; failed files add nothing and are not counted.
C18_Original_CompletionOrder ==
    pool.pc = "done" =>
        /\ pool.completed_files = Cardinality(ReadOk)
        /\ IF ReadOk = {} THEN ret.arg = "None"
           ELSE ret.arg = "arrays" /\ arrays = EventsOf(CompletionOrder)

\* C18 as amended: the merged table holds exactly the events of the files read
\* successfully, file after file, each file's events in file order; the files that
\* finished before the collection began come first, in any order, and the others
\* follow in completion order; failed files add nothing and are not counted.
C18_MergeOfSuccessfulReads ==
    pool.pc = "done" =>
        /\ pool.completed_files = Cardinality(ReadOk)
        /\ IF ReadOk = {} THEN ret.arg = "None"
           ELSE /\ ret.arg = "arrays"
                /\ \E o \in OrdersOfReadOk :
                      /\ arrays = EventsOf(o)
                      /\ \A a, b \in 1 .. Len(o) : a < b =>
                            /\ o[b] \in pool.early => o[a] \in pool.early
                            /\ (o[a] \notin pool.early /\ o[b] \notin pool.early) =>
                                  FinishedBefore(o[a], o[b])

\* of three files the third failed and the first two were read, and the merged
\* table holds the two events of the second and the one event of the first
C18_Witness ==
    /\ pool.pc = "done"
    /\ pool.status = << "ok", "ok", "failed" >>
    /\ Len(arrays) = 3
    /\ arrays = EventsOf(<< 2, 1 >>)

====
